---- MODULE Spec2Model ----
(***************************************************************************)
(* The realtime voice session of DiagnoSphere: the useLiveAPI hook         *)
(* (connect, disconnect, the session callbacks onopen / onmessage /        *)
(* onclose / onerror, the capture callback onaudioprocess, the playback    *)
(* scheduler) together with the HomeView handlers that drive it            *)
(* (toggleLiveConnection, resetState, handleLiveTranscript).               *)
(*                                                                         *)
(* JavaScript runs one task at a time.  Every action below is one task of  *)
(* the event loop, run to completion; a connect() call is split at its     *)
(* two suspension points (await getUserMedia, sessionPromise.then) and an  *)
(* onmessage call at its await of decodeAudioData, whose continuation is a *)
(* microtask and therefore runs before any other task.                     *)
(*                                                                         *)
(* Time is counted in output sample frames (1/24000 s), so that the        *)
(* duration of a decoded buffer is its frame count.                        *)
(***************************************************************************)
EXTENDS Integers, Sequences, FiniteSets, TLC

\* ------------------------------------------------------------------ bounds
\* Spec: every operation, overlapping connect() calls
MaxConnects == 2   \* connect() invocations
MaxBytes    == 2   \* byte length of an inbound audio payload
MaxTime     == 1   \* ticks of the wall clock
MaxSources  == 1   \* buffer sources created
MaxFrames   == 1   \* capture callbacks
MaxLog      == 1   \* conversation entries
\* PlaybackSpec and ScenarioSpec: one connect() call, a stream of audio messages
PlayBytes   == 4
PlayTime    == 2
PlaySources == 3
\* CredentialSpec: every build environment
CredConnects == 1
\* TranscriptSpec: entries of the conversation log
LogLen == 3
\* ErrorSpec: connect() calls
ErrConnects == 2
\* CaptureSpec: captured frames, connect() calls
CapFrames == 3
CapConnects == 2
\* ConfigSpec: distinct analysis results, languages offered, connect() calls
MaxAnalyses == 1
MaxLanguages == 2
CfgConnects == 1
\* CorruptSpec: byte length of a payload, ticks of the clock
CorruptBytes == 4
CorruptTime == 2
\* ChatSpec: connect() calls, entries of the conversation log, requests in flight
ChatConnects == 1
ChatLen == 2
MaxRequests == 1
\* EncodeSpec: samples are multiples of 1/SampleUnit between -2 and 2;
\* samples of a capture buffer
SampleUnit == 2
MaxSamples == 2
\* AttemptSpec: connect() calls
AttemptConnects == 2
\* TeardownSpec: buffer sources created
TeardownSources == 2

Conn == 1..MaxConnects

\* ------------------------------------------------------------- program values
NULL      == 0          \* a ref holding null
undefined == "<undefined>"
NoAudio   == 0          \* message without inlineData.data (or with '')
BadBase64 == 0 - 1      \* inlineData.data that atob rejects
Throw     == 0 - 1      \* a helper raised

\* no closure yet / no systemInstruction yet
NoConfig == [language |-> "", analysis |-> NULL]

\* LANGUAGES, by name
LANGUAGES == <<"English", "Hindi", "Spanish", "French">>

\* inlineData.data: absent, not base64, or the base64 text of 1..maxBytes bytes
AudioData(maxBytes) == {NoAudio, BadBase64} \cup (1..maxBytes)

\* the fields of a LiveServerMessage that onmessage reads
LiveServerMessage(maxBytes) ==
    [inputTranscription  : BOOLEAN,
     outputTranscription : BOOLEAN,
     audioData           : AudioData(maxBytes),
     interrupted         : BOOLEAN]

VARIABLES
    \* build-time environment read by getApiKey
    viteKey, procKey,
    \* useLiveAPI state and refs
    isConnected, isError,
    audioContextRef, inputSourceRef, processorRef,
    nextStartTimeRef, scheduledSourcesRef, sessionRef,
    \* HomeView state
    chatHistory, selectedLanguage,
    analysis,          \* NULL or the id of an analysis result
    isLoading,
    analyzing,         \* an analyzeMedicalImage call is in flight
    chat,              \* NULL or the text chat created for an analysis result
    isChatLoading,
    chatRequests,      \* chat.sendMessage calls in flight
    \* the connect() invocations and what each of them created
    nConnect,          \* connect() calls so far; call k creates the objects k
    pc,                \* position of call k: "none" | "mic" | "session" | "done"
    audioContext,      \* output AudioContext k: "none" | "running" | "closed"
    now,               \* wall clock, in output sample frames
    origin,            \* value of the wall clock when AudioContext k was created
    stream,            \* MediaStream k: "none" | "live" | "stopped"
    sourceConnected,   \* MediaStreamAudioSourceNode k -> processor k
    processorConnected,\* ScriptProcessorNode k -> destination
    onaudioprocess,    \* processor k has the sending handler attached
    session,           \* remote session k: "none" | "connecting" | "open" | "closed"
    closure,           \* what the connect callback invoked as call k closed over
    config,            \* systemInstruction given to ai.live.connect by call k
    \* playback
    sources,           \* every AudioBufferSourceNode created, in creation order
    microtask,         \* the suspended onmessage continuation, if any
    \* capture
    nCaptured, sent,
    inputData,         \* channel data of the last capture event that was encoded
    base64PCM,         \* what float32ToBase64 made of it
    \* history
    lastOp, tornDown, resetAt, scen

vars == <<viteKey, procKey, isConnected, isError, audioContextRef, inputSourceRef,
          processorRef, nextStartTimeRef, scheduledSourcesRef, sessionRef,
          chatHistory, nConnect, pc, audioContext, now, origin, stream,
          sourceConnected, processorConnected, onaudioprocess, session, sources,
          microtask, nCaptured, sent, lastOp, tornDown, resetAt, scen,
          selectedLanguage, analysis, isLoading, analyzing, closure, config,
          chat, isChatLoading, chatRequests, inputData, base64PCM>>

\* the state of the hook that disconnect() is about
hookVars == <<isConnected, isError, audioContextRef, inputSourceRef, processorRef,
              nextStartTimeRef, scheduledSourcesRef, sessionRef>>

envVars    == <<viteKey, procKey>>
viewVars   == <<selectedLanguage, analysis, isLoading, analyzing, chat,
                 isChatLoading, chatRequests>>
connVars   == <<nConnect, pc>>
inputVars  == <<stream, sourceConnected, processorConnected, onaudioprocess>>
outputVars == <<audioContext, now, origin, sources>>
captureVars == <<nCaptured, sent, inputData, base64PCM>>

\* ------------------------------------------------------------ pure helpers

Max(a, b) == IF a >= b THEN a ELSE b

\* audioContext.currentTime of output context k (0 when it is created)
currentTime(k) == now - origin[k]

\* getApiKey: VITE_API_KEY first, process.env.API_KEY as the fallback,
\* `key || undefined` at the end.
getApiKey ==
    LET key1 == IF viteKey # "" THEN viteKey ELSE ""
        key2 == IF key1 = "" /\ procKey # "" THEN procKey ELSE key1
    IN  IF key2 # "" THEN key2 ELSE undefined

\* `!apiKey`
ApiKeyAbsentNoUndefined(apiKey) == apiKey = ""
ApiKeyAbsent(apiKey) == apiKey \in {undefined, ""}

\* decodeBase64: the byte length of the decoded payload, or Throw (atob raises)
decodeBase64(base64) == IF base64 = BadBase64 THEN Throw ELSE base64

\* decodeAudioData: new Int16Array(data.buffer) raises a RangeError on an odd
\* byte length; otherwise the buffer has length/2 frames of one channel.  The
\* result is the buffer's duration in frames.
decodeAudioDataTruncating(bytes) == bytes \div 2
decodeAudioData(bytes) == IF bytes % 2 # 0 THEN Throw ELSE bytes \div 2

\* A sample is the number s / SampleUnit, written s, or NaN.
NaN == 0 - 99999

\* Math.max(-1, Math.min(1, data[i])): NaN stays NaN
ClampNone(s) == s
Clamp(s) ==
    IF s = NaN THEN NaN
    ELSE IF s > SampleUnit THEN SampleUnit
    ELSE IF s < 0 - SampleUnit THEN 0 - SampleUnit ELSE s

\* int16[i] = x: ToInt16 of the number num / SampleUnit, which truncates
\* toward zero and wraps modulo 2^16; NaN becomes 0
ToInt16(num) ==
    LET t == IF num >= 0 THEN num \div SampleUnit
                         ELSE 0 - ((0 - num) \div SampleUnit)
    IN  ((t + 32768) % 65536) - 32768

\* s < 0 ? s * 0x8000 : s * 0x7FFF, stored in the Int16Array
Int16Sample(s) ==
    LET c == Clamp(s)
    IN  IF c = NaN THEN 0
        ELSE IF c < 0 THEN ToInt16(c * 32768) ELSE ToInt16(c * 32767)

\* new Uint8Array(int16.buffer): two bytes per sample, low byte first
Uint8Array(int16) ==
    [j \in 1..(2 * Len(int16)) |->
        LET u == int16[(j + 1) \div 2] % 65536
        IN  IF j % 2 = 1 THEN u % 256 ELSE u \div 256]

\* btoa: the base64 text of a byte string, as its sequence of 6-bit digits;
\* 64 stands for the padding character '='
btoa(bytes) ==
    LET n    == Len(bytes)
        B(i) == IF i <= n THEN bytes[i] ELSE 0
    IN  [j \in 1..(4 * ((n + 2) \div 3)) |->
            LET q  == (j - 1) \div 4
                b0 == B(3 * q + 1)
                b1 == B(3 * q + 2)
                b2 == B(3 * q + 3)
            IN  CASE (j - 1) % 4 = 0 -> b0 \div 4
                  [] (j - 1) % 4 = 1 -> (b0 % 4) * 16 + b1 \div 16
                  [] (j - 1) % 4 = 2 ->
                        IF 3 * q + 2 > n THEN 64 ELSE (b1 % 16) * 4 + b2 \div 64
                  [] (j - 1) % 4 = 3 ->
                        IF 3 * q + 3 > n THEN 64 ELSE b2 % 64]

\* atob: the byte string of a base64 text
atob(text) ==
    LET pads == Cardinality({j \in DOMAIN text : text[j] = 64})
        D(j) == IF text[j] = 64 THEN 0 ELSE text[j]
    IN  [i \in 1..((Len(text) \div 4) * 3 - pads) |->
            LET q == (i - 1) \div 3
            IN  CASE (i - 1) % 3 = 0 -> D(4 * q + 1) * 4 + D(4 * q + 2) \div 16
                  [] (i - 1) % 3 = 1 -> (D(4 * q + 2) % 16) * 16 + D(4 * q + 3) \div 4
                  [] (i - 1) % 3 = 2 -> (D(4 * q + 3) % 4) * 64 + D(4 * q + 4)]

\* new Int16Array(data.buffer): the 16-bit samples of a byte string
Int16Array(bytes) ==
    [i \in 1..(Len(bytes) \div 2) |->
        LET u == bytes[2 * i - 1] + 256 * bytes[2 * i]
        IN  IF u >= 32768 THEN u - 65536 ELSE u]

\* float32ToBase64
float32ToBase64(data) ==
    btoa(Uint8Array([i \in DOMAIN data |-> Int16Sample(data[i])]))

\* const startTime = Math.max(currentTime, nextStartTimeRef.current)
StartTimeNow(clock, nextStart) == clock
StartTimeOffsetOnly(clock, nextStart) == nextStart
StartTime(clock, nextStart) == Max(clock, nextStart)

\* nextStartTimeRef.current = startTime + buffer.duration
NextStartNoAdvance(startTime, duration) == startTime
NextStart(startTime, duration) == startTime + duration

\* forEach(s => s.stop()): the sources of the set are stopped
StopNone(srcs, set) == srcs
StopAll(srcs, set) ==
    [i \in DOMAIN srcs |->
        IF i \in set THEN [srcs[i] EXCEPT !.state = "stopped"] ELSE srcs[i]]

\* handleLiveTranscript: setChatHistory(prev => [...prev, {role, content}])
handleLiveTranscriptDedup(history, isUser) ==
    LET entry == [role |-> IF isUser THEN "user" ELSE "model", content |-> "text"]
    IN  IF history # <<>> /\ history[Len(history)] = entry
          THEN history ELSE Append(history, entry)
handleLiveTranscript(history, isUser) ==
    Append(history, [role |-> IF isUser THEN "user" ELSE "model", content |-> "text"])


\* 3. Handle Interruptions: stop every source of the active set, clear the set,
\* reset the output clock offset.
HandleInterruptionKeepOffset(srcs, set, nextStart) ==
    [sources |-> StopAll(srcs, set), scheduled |-> {}, nextStart |-> nextStart]
HandleInterruption(srcs, set, nextStart) ==
    [sources |-> StopAll(srcs, set), scheduled |-> {}, nextStart |-> 0]

\* disconnect, 3. Stop Audio Output: the value nextStartTimeRef is reset to
DisconnectStartTimeNow(ctxRef) == IF ctxRef # NULL THEN currentTime(ctxRef) ELSE 0
DisconnectStartTime(ctxRef) == 0

\* systemInstructionText: the spoken language and, when there is one, the
\* analysis report, both taken from the values the callback closed over.
SystemInstructionLive(deps) ==
    [language |-> selectedLanguage, analysis |-> analysis]
SystemInstruction(deps) ==
    [language |-> deps.language, analysis |-> deps.analysis]

\* ------------------------------------------------------------------- Init

Init ==
    /\ viteKey \in {"", "VITE_API_KEY"}
    /\ procKey \in {"", "API_KEY"}
    /\ isConnected = FALSE
    /\ isError = FALSE
    /\ audioContextRef = NULL
    /\ inputSourceRef = NULL
    /\ processorRef = NULL
    /\ nextStartTimeRef = 0
    /\ scheduledSourcesRef = {}
    /\ sessionRef = NULL
    /\ chatHistory = <<>>
    /\ selectedLanguage = LANGUAGES[1]
    /\ analysis = NULL
    /\ isLoading = FALSE
    /\ analyzing = FALSE
    /\ chat = NULL
    /\ isChatLoading = FALSE
    /\ chatRequests = 0
    /\ closure = [k \in Conn |-> NoConfig]
    /\ config = [k \in Conn |-> NoConfig]
    /\ nConnect = 0
    /\ pc = [k \in Conn |-> "none"]
    /\ audioContext = [k \in Conn |-> "none"]
    /\ now = 0
    /\ origin = [k \in Conn |-> 0]
    /\ stream = [k \in Conn |-> "none"]
    /\ sourceConnected = [k \in Conn |-> FALSE]
    /\ processorConnected = [k \in Conn |-> FALSE]
    /\ onaudioprocess = [k \in Conn |-> FALSE]
    /\ session = [k \in Conn |-> "none"]
    /\ sources = <<>>
    /\ microtask = <<>>
    /\ nCaptured = 0
    /\ sent = <<>>
    /\ inputData = <<>>
    /\ base64PCM = <<>>
    /\ lastOp = "other"
    /\ tornDown = FALSE
    /\ resetAt = 0
    /\ scen = [stage |-> 0, tInterrupt |-> 0, preNext |-> 0, tSched |-> 0]

\* ----------------------------------------------------------- useLiveAPI

\* disconnect(): everything but the HomeView state, which the caller sets.
disconnect ==
    /\ microtask = <<>>
    \* 1. Close session
    /\ sessionRef' = NULL
    \* 2. Stop Audio Input
    /\ sourceConnected' = IF inputSourceRef # NULL
                            THEN [sourceConnected EXCEPT ![inputSourceRef] = FALSE]
                            ELSE sourceConnected
    /\ inputSourceRef' = NULL
    /\ processorConnected' = IF processorRef # NULL
                               THEN [processorConnected EXCEPT ![processorRef] = FALSE]
                               ELSE processorConnected
    /\ processorRef' = NULL
    \* 3. Stop Audio Output
    /\ sources' = StopAll(sources, scheduledSourcesRef)
    /\ scheduledSourcesRef' = {}
    /\ nextStartTimeRef' = DisconnectStartTime(audioContextRef)
    /\ audioContext' = IF audioContextRef # NULL
                         THEN [audioContext EXCEPT ![audioContextRef] = "closed"]
                         ELSE audioContext
    /\ audioContextRef' = NULL
    /\ isConnected' = FALSE
    /\ lastOp' = "disconnect"
    /\ tornDown' = TRUE
    /\ resetAt' = Len(sources)
    /\ UNCHANGED <<envVars, isError, connVars, now, origin, stream, onaudioprocess,
                   session, microtask, captureVars>>
    /\ UNCHANGED <<closure, config>>

\* disconnect() when one of its release calls fails.  The two node
\* disconnect() calls are unguarded: an exception leaves the callback there,
\* after the statements before it.  A stop() that raises is caught per source.
\* close() reports failure by rejecting the promise it returns, which nobody
\* awaits.
disconnectRaised(at) ==
    /\ microtask = <<>>
    /\ at \in {"inputSource", "processor", "stop", "close"}
    /\ sessionRef' = NULL
    /\ CASE at = "inputSource" ->
              /\ inputSourceRef # NULL
              /\ UNCHANGED <<inputSourceRef, sourceConnected, processorRef,
                             processorConnected, sources, scheduledSourcesRef,
                             nextStartTimeRef, audioContext, audioContextRef,
                             isConnected>>
         [] at = "processor" ->
              /\ processorRef # NULL
              /\ sourceConnected' =
                    IF inputSourceRef # NULL
                      THEN [sourceConnected EXCEPT ![inputSourceRef] = FALSE]
                      ELSE sourceConnected
              /\ inputSourceRef' = NULL
              /\ UNCHANGED <<processorRef, processorConnected, sources,
                             scheduledSourcesRef, nextStartTimeRef, audioContext,
                             audioContextRef, isConnected>>
         [] at \in {"stop", "close"} ->
              /\ at = "stop" => scheduledSourcesRef # {}
              /\ at = "close" => audioContextRef # NULL
              /\ sourceConnected' =
                    IF inputSourceRef # NULL
                      THEN [sourceConnected EXCEPT ![inputSourceRef] = FALSE]
                      ELSE sourceConnected
              /\ inputSourceRef' = NULL
              /\ processorConnected' =
                    IF processorRef # NULL
                      THEN [processorConnected EXCEPT ![processorRef] = FALSE]
                      ELSE processorConnected
              /\ processorRef' = NULL
              /\ IF at = "stop"
                   THEN \E failing \in SUBSET scheduledSourcesRef :
                          /\ failing # {}
                          /\ sources' = StopAll(sources, scheduledSourcesRef \ failing)
                   ELSE sources' = StopAll(sources, scheduledSourcesRef)
              /\ scheduledSourcesRef' = {}
              /\ nextStartTimeRef' = DisconnectStartTime(audioContextRef)
              /\ audioContext' =
                    IF audioContextRef # NULL /\ at # "close"
                      THEN [audioContext EXCEPT ![audioContextRef] = "closed"]
                      ELSE audioContext
              /\ audioContextRef' = NULL
              /\ isConnected' = FALSE
    /\ lastOp' = "disconnect.throw"
    /\ UNCHANGED <<envVars, isError, connVars, now, origin, stream, onaudioprocess,
                   session, microtask, captureVars, tornDown, resetAt,
                   chatHistory, viewVars, closure, config>>

\* connect(), up to `await getUserMedia` or, without a credential, through
\* the catch block.
connect ==
    LET k == nConnect + 1 IN
    /\ microtask = <<>>
    /\ nConnect < MaxConnects
    /\ nConnect' = k
    /\ audioContext' = [audioContext EXCEPT ![k] = "running"]
    /\ origin' = [origin EXCEPT ![k] = now]
    /\ audioContextRef' = k
    /\ IF ApiKeyAbsent(getApiKey)
         THEN /\ isError' = TRUE
              /\ isConnected' = FALSE
              /\ pc' = [pc EXCEPT ![k] = "done"]
              /\ lastOp' = "other"
         ELSE /\ isError' = FALSE
              /\ isConnected' = isConnected
              /\ pc' = [pc EXCEPT ![k] = "mic"]
              /\ lastOp' = "other"
    /\ tornDown' = FALSE
    /\ UNCHANGED <<envVars, inputSourceRef, processorRef, nextStartTimeRef,
                   scheduledSourcesRef, sessionRef, now, inputVars, session,
                   sources, microtask, captureVars, resetAt>>
    /\ closure' = [closure EXCEPT ![nConnect + 1] =
                    [language |-> selectedLanguage, analysis |-> analysis]]
    /\ UNCHANGED config

\* connect() resumed after getUserMedia resolved: the capture graph is built,
\* the system instruction prepared and ai.live.connect called.
getUserMediaResolved(k) ==
    /\ microtask = <<>>
    /\ pc[k] = "mic"
    /\ stream' = [stream EXCEPT ![k] = "live"]
    /\ inputSourceRef' = k
    /\ processorRef' = k
    /\ sourceConnected' = [sourceConnected EXCEPT ![k] = TRUE]
    /\ processorConnected' = [processorConnected EXCEPT ![k] = TRUE]
    /\ session' = [session EXCEPT ![k] = "connecting"]
    /\ pc' = [pc EXCEPT ![k] = "session"]
    /\ lastOp' = "other"
    /\ UNCHANGED <<envVars, isConnected, isError, audioContextRef, nextStartTimeRef,
                   scheduledSourcesRef, sessionRef, chatHistory, nConnect,
                   outputVars, onaudioprocess, microtask, captureVars, tornDown, resetAt>>
    /\ config' = [config EXCEPT ![k] = SystemInstruction(closure[k])]
    /\ UNCHANGED <<viewVars, closure>>

\* connect() resumed after getUserMedia rejected: the catch block.
getUserMediaRejectedRetry(k) ==
    /\ microtask = <<>>
    /\ pc[k] = "mic"
    /\ nConnect < MaxConnects
    /\ nConnect' = nConnect + 1
    /\ pc' = [pc EXCEPT ![k] = "done", ![nConnect + 1] = "mic"]
    /\ audioContext' = [audioContext EXCEPT ![nConnect + 1] = "running"]
    /\ origin' = [origin EXCEPT ![nConnect + 1] = now]
    /\ audioContextRef' = nConnect + 1
    /\ closure' = [closure EXCEPT ![nConnect + 1] =
                    [language |-> selectedLanguage, analysis |-> analysis]]
    /\ isError' = FALSE
    /\ isConnected' = FALSE
    /\ lastOp' = "other"
    /\ tornDown' = FALSE
    /\ UNCHANGED <<envVars, inputSourceRef, processorRef, nextStartTimeRef,
                   scheduledSourcesRef, sessionRef, chatHistory, now, sources,
                   inputVars, session, microtask, captureVars, resetAt,
                   viewVars, config>>
getUserMediaRejected(k) ==
    /\ microtask = <<>>
    /\ pc[k] = "mic"
    /\ isError' = TRUE
    /\ isConnected' = FALSE
    /\ pc' = [pc EXCEPT ![k] = "done"]
    /\ lastOp' = "other"
    /\ UNCHANGED <<envVars, audioContextRef, inputSourceRef, processorRef,
                   nextStartTimeRef, scheduledSourcesRef, sessionRef, chatHistory,
                   nConnect, outputVars, inputVars, session, microtask, captureVars,
                   tornDown, resetAt>>
    /\ UNCHANGED <<viewVars, closure, config>>

\* callbacks.onopen
onopen(k) ==
    /\ microtask = <<>>
    /\ session[k] = "connecting"
    /\ session' = [session EXCEPT ![k] = "open"]
    /\ isConnected' = TRUE
    /\ lastOp' = "other"
    /\ UNCHANGED <<envVars, isError, audioContextRef, inputSourceRef, processorRef,
                   nextStartTimeRef, scheduledSourcesRef, sessionRef, chatHistory,
                   connVars, outputVars, inputVars, microtask, captureVars, tornDown, resetAt>>
    /\ UNCHANGED <<viewVars, closure, config>>

\* callbacks.onclose
oncloseClearsError(k) ==
    /\ microtask = <<>>
    /\ session[k] \in {"connecting", "open"}
    /\ session' = [session EXCEPT ![k] = "closed"]
    /\ isConnected' = FALSE
    /\ isError' = FALSE
    /\ lastOp' = "other"
    /\ UNCHANGED <<envVars, audioContextRef, inputSourceRef, processorRef,
                   nextStartTimeRef, scheduledSourcesRef, sessionRef, chatHistory,
                   connVars, outputVars, inputVars, microtask, captureVars, tornDown, resetAt>>
    /\ UNCHANGED <<viewVars, closure, config>>
onclose(k) ==
    /\ microtask = <<>>
    /\ session[k] \in {"connecting", "open"}
    /\ session' = [session EXCEPT ![k] = "closed"]
    /\ isConnected' = FALSE
    /\ lastOp' = "other"
    /\ UNCHANGED <<envVars, isError, audioContextRef, inputSourceRef, processorRef,
                   nextStartTimeRef, scheduledSourcesRef, sessionRef, chatHistory,
                   connVars, outputVars, inputVars, microtask, captureVars, tornDown, resetAt>>
    /\ UNCHANGED <<viewVars, closure, config>>

\* callbacks.onerror
onerrorNoFlag(k) ==
    /\ microtask = <<>>
    /\ session[k] \in {"connecting", "open"}
    /\ session' = [session EXCEPT ![k] = "closed"]
    /\ isConnected' = FALSE
    /\ lastOp' = "other"
    /\ UNCHANGED <<envVars, isError, audioContextRef, inputSourceRef, processorRef,
                   nextStartTimeRef, scheduledSourcesRef, sessionRef, chatHistory,
                   connVars, outputVars, inputVars, microtask, captureVars, tornDown, resetAt>>
    /\ UNCHANGED <<viewVars, closure, config>>
onerror(k) ==
    /\ microtask = <<>>
    /\ session[k] \in {"connecting", "open"}
    /\ session' = [session EXCEPT ![k] = "closed"]
    /\ isError' = TRUE
    /\ isConnected' = FALSE
    /\ lastOp' = "other"
    /\ UNCHANGED <<envVars, audioContextRef, inputSourceRef, processorRef,
                   nextStartTimeRef, scheduledSourcesRef, sessionRef, chatHistory,
                   connVars, outputVars, inputVars, microtask, captureVars, tornDown, resetAt>>
    /\ UNCHANGED <<viewVars, closure, config>>

\* sessionPromise.then(session => ...): the session is stored and the sending
\* handler attached to the processor of this connect() call.
sessionPromiseThen(k) ==
    /\ microtask = <<>>
    /\ pc[k] = "session"
    /\ session[k] = "open"
    /\ sessionRef' = k
    /\ onaudioprocess' = [onaudioprocess EXCEPT ![k] = TRUE]
    /\ pc' = [pc EXCEPT ![k] = "done"]
    /\ lastOp' = "other"
    /\ UNCHANGED <<envVars, isConnected, isError, audioContextRef, inputSourceRef,
                   processorRef, nextStartTimeRef, scheduledSourcesRef, chatHistory,
                   nConnect, outputVars, stream, sourceConnected, processorConnected,
                   session, microtask, captureVars, tornDown, resetAt>>
    /\ UNCHANGED <<viewVars, closure, config>>

\* sessionPromise rejects: no handler is registered for it and it is not
\* awaited, so neither the then callback nor the catch block runs.
sessionPromiseRejected(k) ==
    /\ microtask = <<>>
    /\ pc[k] = "session"
    /\ session[k] \in {"connecting", "closed"}
    /\ session' = [session EXCEPT ![k] = "closed"]
    /\ pc' = [pc EXCEPT ![k] = "done"]
    /\ lastOp' = "other"
    /\ UNCHANGED <<envVars, hookVars, chatHistory, nConnect, outputVars, inputVars,
                   microtask, captureVars, tornDown, resetAt>>
    /\ UNCHANGED <<viewVars, closure, config>>


\* 1. Handle Transcriptions: onTranscript(text, true) for the input
\* transcription, then onTranscript(text, false) for the output transcription.
Transcribe(history, message) ==
    LET h1 == IF message.inputTranscription
                THEN handleLiveTranscript(history, TRUE) ELSE history
    IN  IF message.outputTranscription THEN handleLiveTranscript(h1, FALSE) ELSE h1

\* callbacks.onmessage, up to its await (a message with a decodable payload and
\* an output context) or to its end (every other message).
onmessage(k, message) ==
    /\ microtask = <<>>
    /\ session[k] = "open"
    /\ chatHistory' = Transcribe(chatHistory, message)
    /\ IF message.audioData # NoAudio /\ audioContextRef # NULL
         THEN IF decodeBase64(message.audioData) = Throw
                THEN \* atob raised: the handler's promise rejects
                     /\ lastOp' = IF message.interrupted THEN "interrupted.throw"
                                                         ELSE "other"
                     /\ UNCHANGED <<nextStartTimeRef, scheduledSourcesRef, sources,
                                    microtask, resetAt>>
                ELSE \* decodeAudioData ran; the handler awaits its promise
                     /\ microtask' = <<[bytes |-> decodeBase64(message.audioData),
                                        interrupted |-> message.interrupted]>>
                     /\ UNCHANGED <<nextStartTimeRef, scheduledSourcesRef, sources,
                                    resetAt, lastOp>>
         ELSE IF message.interrupted
                THEN LET r == HandleInterruption(sources, scheduledSourcesRef,
                                                 nextStartTimeRef)
                     IN  /\ sources' = r.sources
                         /\ scheduledSourcesRef' = r.scheduled
                         /\ nextStartTimeRef' = r.nextStart
                         /\ resetAt' = Len(sources)
                         /\ lastOp' = "interrupted"
                         /\ UNCHANGED microtask
                ELSE /\ lastOp' = "other"
                     /\ UNCHANGED <<nextStartTimeRef, scheduledSourcesRef, sources,
                                    microtask, resetAt>>
    /\ UNCHANGED <<envVars, isConnected, isError, audioContextRef, inputSourceRef,
                   processorRef, sessionRef, connVars, audioContext, now, origin,
                   inputVars, session, captureVars, tornDown>>
    /\ UNCHANGED <<viewVars, closure, config>>

\* callbacks.onmessage resumed after `await decodeAudioData(...)`: 2. Handle
\* Audio Output (schedule playback), then 3. Handle Interruptions.
onmessageResumed ==
    /\ microtask # <<>>
    /\ microtask' = <<>>
    /\ LET task     == Head(microtask)
           duration == decodeAudioData(task.bytes)
       IN  IF duration = Throw
             THEN \* the awaited promise rejected: the handler's promise rejects
                  /\ lastOp' = IF task.interrupted THEN "interrupted.throw" ELSE "other"
                  /\ UNCHANGED <<nextStartTimeRef, scheduledSourcesRef, sources,
                                 resetAt>>
             ELSE LET startTime == StartTime(currentTime(audioContextRef),
                                             nextStartTimeRef)
                      source    == [start |-> startTime, duration |-> duration,
                                    state |-> "scheduled", ctx |-> audioContextRef]
                      srcs1     == Append(sources, source)
                      set1      == scheduledSourcesRef \cup {Len(srcs1)}
                      next1     == NextStart(startTime, duration)
                      r         == HandleInterruption(srcs1, set1, next1)
                  IN  IF task.interrupted
                        THEN /\ sources' = r.sources
                             /\ scheduledSourcesRef' = r.scheduled
                             /\ nextStartTimeRef' = r.nextStart
                             /\ resetAt' = Len(srcs1)
                             /\ lastOp' = "interrupted"
                        ELSE /\ sources' = srcs1
                             /\ scheduledSourcesRef' = set1
                             /\ nextStartTimeRef' = next1
                             /\ lastOp' = "other"
                             /\ UNCHANGED resetAt
    /\ UNCHANGED <<envVars, isConnected, isError, audioContextRef, inputSourceRef,
                   processorRef, sessionRef, chatHistory, connVars, audioContext,
                   now, origin, inputVars, session, captureVars, tornDown>>
    /\ UNCHANGED <<viewVars, closure, config>>

\* source.onended
onendedKeepsSource(i) ==
    /\ microtask = <<>>
    /\ sources[i].state = "scheduled"
    /\ audioContext[sources[i].ctx] = "running"
    /\ currentTime(sources[i].ctx) >= sources[i].start + sources[i].duration
    /\ sources' = [sources EXCEPT ![i].state = "ended"]
    /\ lastOp' = "other"
    /\ UNCHANGED <<envVars, hookVars, chatHistory, connVars, audioContext, now,
                   origin, inputVars, session, microtask, captureVars, tornDown,
                   resetAt, viewVars, closure, config>>

\* source.onended = () => scheduledSourcesRef.current.delete(source), fired
\* when the buffer has played to its end.
onended(i) ==
    /\ microtask = <<>>
    /\ sources[i].state = "scheduled"
    /\ audioContext[sources[i].ctx] = "running"
    /\ currentTime(sources[i].ctx) >= sources[i].start + sources[i].duration
    /\ sources' = [sources EXCEPT ![i].state = "ended"]
    /\ scheduledSourcesRef' = scheduledSourcesRef \ {i}
    /\ lastOp' = "other"
    /\ UNCHANGED <<envVars, isConnected, isError, audioContextRef, inputSourceRef,
                   processorRef, nextStartTimeRef, sessionRef, chatHistory, connVars,
                   audioContext, now, origin, inputVars, session, microtask,
                   captureVars, tornDown, resetAt>>
    /\ UNCHANGED <<viewVars, closure, config>>

\* processor.onaudioprocess
audioprocessUnwired(k) ==
    /\ microtask = <<>>
    /\ stream[k] = "live"
    /\ sourceConnected[k]
    /\ processorConnected[k]
    /\ nCaptured' = nCaptured + 1
    /\ sent' = Append(sent, [session |-> k, frame |-> nCaptured + 1])
    /\ lastOp' = "other"
    /\ UNCHANGED <<envVars, hookVars, chatHistory, connVars, outputVars, inputVars,
                   session, microtask, tornDown, resetAt>>
    /\ UNCHANGED <<viewVars, closure, config, inputData, base64PCM>>

\* processor.onaudioprocess
audioprocessTwice(k) ==
    /\ microtask = <<>>
    /\ stream[k] = "live"
    /\ sourceConnected[k]
    /\ processorConnected[k]
    /\ nCaptured' = nCaptured + 1
    /\ sent' = IF onaudioprocess[k]
                 THEN sent \o <<[session |-> k, frame |-> nCaptured + 1],
                                [session |-> k, frame |-> nCaptured + 1]>>
                 ELSE sent
    /\ lastOp' = "other"
    /\ UNCHANGED <<envVars, hookVars, chatHistory, connVars, outputVars, inputVars,
                   session, microtask, tornDown, resetAt>>
    /\ UNCHANGED <<viewVars, closure, config, inputData, base64PCM>>

\* processor.onaudioprocess: a captured frame is encoded and passed to
\* session.sendRealtimeInput of the session the handler closed over.  The
\* processor delivers frames while its graph is connected; without the
\* handler the frame is dropped.
audioprocess(k) ==
    /\ microtask = <<>>
    /\ stream[k] = "live"
    /\ sourceConnected[k]
    /\ processorConnected[k]
    /\ nCaptured' = nCaptured + 1
    /\ sent' = IF onaudioprocess[k]
                 THEN Append(sent, [session |-> k, frame |-> nCaptured + 1])
                 ELSE sent
    /\ lastOp' = "other"
    /\ UNCHANGED <<envVars, hookVars, chatHistory, connVars, outputVars, inputVars,
                   session, microtask, tornDown, resetAt>>
    /\ UNCHANGED <<viewVars, closure, config, inputData, base64PCM>>

\* processor.onaudioprocess, its first two statements: the channel data of the
\* event is taken and encoded.
encodeFrame(data) ==
    /\ inputData' = data
    /\ base64PCM' = float32ToBase64(data)
    /\ UNCHANGED <<envVars, hookVars, chatHistory, connVars, outputVars, inputVars,
                   session, microtask, nCaptured, sent, lastOp, tornDown, resetAt,
                   viewVars, closure, config>>

\* Time passes: audioContext.currentTime of every output context grows.
Tick ==
    /\ microtask = <<>>
    /\ \E k \in Conn : audioContext[k] = "running"
    /\ now' = now + 1
    /\ UNCHANGED <<envVars, hookVars, chatHistory, connVars, audioContext, origin,
                   sources, inputVars, session, microtask, captureVars, lastOp,
                   tornDown, resetAt>>
    /\ UNCHANGED <<viewVars, closure, config>>

\* ---------------------------------------------------------------- HomeView

toggleLiveConnection ==
    /\ \/ isConnected /\ disconnect
       \/ ~isConnected /\ connect
    /\ UNCHANGED <<chatHistory, viewVars>>

\* resetState, called by handleFileChange when a new image is chosen
resetState ==
    /\ analysis' = NULL
    /\ isLoading' = FALSE
    /\ chatHistory' = <<>>
    /\ chat' = NULL
    /\ isChatLoading' = FALSE
    /\ disconnect
    /\ UNCHANGED <<selectedLanguage, analyzing, chatRequests>>

\* what a HomeView handler that does not call the hook leaves alone
hookUnchanged ==
    UNCHANGED <<envVars, hookVars, connVars, outputVars, inputVars, session,
                microtask, captureVars, lastOp, tornDown, resetAt, closure, config>>

\* the language select's onChange: the language is stored; a connected voice
\* session is disconnected, not reconfigured.
selectLanguage(lang) ==
    /\ lang # selectedLanguage
    /\ selectedLanguage' = lang
    /\ IF isConnected THEN disconnect ELSE microtask = <<>> /\ hookUnchanged
    /\ UNCHANGED <<chatHistory, analysis, isLoading, analyzing, chat,
                   isChatLoading, chatRequests>>

\* handleAnalyzeClick up to `await analyzeMedicalImage(imageFile)`, with an
\* image chosen; the button is disabled while isLoading.
handleAnalyzeClick ==
    /\ ~isLoading
    /\ ~analyzing
    /\ isLoading' = TRUE
    /\ analyzing' = TRUE
    /\ analysis' = NULL
    /\ chat' = NULL
    /\ chatHistory' = <<>>
    /\ disconnect
    /\ UNCHANGED <<selectedLanguage, isChatLoading, chatRequests>>

\* handleAnalyzeClick resumed with the analysis result
analyzeMedicalImageResolved(result) ==
    /\ microtask = <<>>
    /\ analyzing
    /\ analyzing' = FALSE
    /\ analysis' = result
    /\ chat' = IF ApiKeyAbsent(getApiKey) THEN chat ELSE result
    /\ isLoading' = FALSE
    /\ hookUnchanged
    /\ UNCHANGED <<chatHistory, selectedLanguage, isChatLoading, chatRequests>>

\* handleAnalyzeClick resumed in its catch block
analyzeMedicalImageRejected ==
    /\ microtask = <<>>
    /\ analyzing
    /\ analyzing' = FALSE
    /\ isLoading' = FALSE
    /\ hookUnchanged
    /\ UNCHANGED <<chatHistory, selectedLanguage, analysis, chat, isChatLoading,
                   chatRequests>>

\* handleSendChatMessage up to `await chat.sendMessage(...)`, with a question
\* typed: nothing is sent without a chat, while a reply is awaited or while
\* the voice session is connected.
handleSendChatMessage ==
    /\ microtask = <<>>
    /\ chat # NULL
    /\ ~isChatLoading
    /\ ~isConnected
    /\ chatHistory' = Append(chatHistory, [role |-> "user", content |-> "chatInput"])
    /\ isChatLoading' = TRUE
    /\ chatRequests' = chatRequests + 1
    /\ hookUnchanged
    /\ UNCHANGED <<selectedLanguage, analysis, isLoading, analyzing, chat>>

\* handleSendChatMessage resumed with the reply
sendMessageResolved ==
    /\ microtask = <<>>
    /\ chatRequests > 0
    /\ chatRequests' = chatRequests - 1
    /\ chatHistory' = Append(chatHistory, [role |-> "model", content |-> "response.text"])
    /\ isChatLoading' = FALSE
    /\ hookUnchanged
    /\ UNCHANGED <<selectedLanguage, analysis, isLoading, analyzing, chat>>

\* handleSendChatMessage resumed in its catch block
sendMessageRejected ==
    /\ microtask = <<>>
    /\ chatRequests > 0
    /\ chatRequests' = chatRequests - 1
    /\ isChatLoading' = FALSE
    /\ hookUnchanged
    /\ UNCHANGED <<chatHistory, selectedLanguage, analysis, isLoading, analyzing, chat>>

\* -------------------------------------------------------------- behaviours

\* messages that carry no transcription
AudioMessages(maxBytes) ==
    {m \in LiveServerMessage(maxBytes) :
        ~m.inputTranscription /\ ~m.outputTranscription}

\* a deployment with process.env.API_KEY and without VITE_API_KEY
InitLocal == Init /\ viteKey = "" /\ procKey # ""

\* Spec: every operation, within MaxTime, MaxSources, MaxFrames and MaxLog
Bounded ==
    /\ now <= MaxTime
    /\ Len(sources) + Len(microtask) <= MaxSources
    /\ nCaptured <= MaxFrames
    /\ Len(chatHistory) <= MaxLog

Do(A) == A /\ Bounded' /\ UNCHANGED scen

Next ==
    \/ Do(toggleLiveConnection)
    \/ Do(resetState)
    \/ \E k \in Conn : Do(getUserMediaResolved(k))
    \/ \E k \in Conn : Do(getUserMediaRejected(k))
    \/ \E k \in Conn : Do(onopen(k))
    \/ \E k \in Conn : Do(sessionPromiseThen(k))
    \/ \E k \in Conn : Do(sessionPromiseRejected(k))
    \/ \E k \in Conn : Do(onclose(k))
    \/ \E k \in Conn : Do(onerror(k))
    \/ \E k \in Conn, message \in LiveServerMessage(MaxBytes) : Do(onmessage(k, message))
    \/ Do(onmessageResumed)
    \/ \E i \in DOMAIN sources : Do(onended(i))
    \/ \E k \in Conn : Do(audioprocess(k))
    \/ Do(Tick)

Spec == InitLocal /\ [][Next]_vars

\* PlaybackSpec: the playback scheduler during one voice session (connect() is
\* called once), fed with audio messages of up to PlayBytes bytes.
PlaybackBounded ==
    /\ nConnect <= 1
    /\ now <= PlayTime
    /\ Len(sources) + Len(microtask) <= PlaySources

DoPlayback(A) == A /\ PlaybackBounded' /\ UNCHANGED scen

PlaybackNext ==
    \/ DoPlayback(toggleLiveConnection)
    \/ DoPlayback(resetState)
    \/ \E k \in Conn : DoPlayback(getUserMediaResolved(k))
    \/ \E k \in Conn : DoPlayback(getUserMediaRejected(k))
    \/ \E k \in Conn : DoPlayback(onopen(k))
    \/ \E k \in Conn : DoPlayback(sessionPromiseThen(k))
    \/ \E k \in Conn : DoPlayback(sessionPromiseRejected(k))
    \/ \E k \in Conn : DoPlayback(onclose(k))
    \/ \E k \in Conn : DoPlayback(onerror(k))
    \/ \E k \in Conn, message \in AudioMessages(PlayBytes) :
          DoPlayback(onmessage(k, message))
    \/ DoPlayback(onmessageResumed)
    \/ \E i \in DOMAIN sources : DoPlayback(onended(i))
    \/ DoPlayback(Tick)

PlaybackSpec == InitLocal /\ [][PlaybackNext]_vars

\* CredentialSpec: connect() and disconnect() in every build environment,
\* with and without a credential.
CredentialBounded ==
    /\ nConnect <= CredConnects
    /\ now <= MaxTime

DoCredential(A) == A /\ CredentialBounded' /\ UNCHANGED scen

CredentialNext ==
    \/ DoCredential(toggleLiveConnection)
    \/ DoCredential(resetState)
    \/ \E k \in Conn : DoCredential(getUserMediaResolved(k))
    \/ \E k \in Conn : DoCredential(getUserMediaRejected(k))
    \/ \E k \in Conn : DoCredential(onopen(k))
    \/ \E k \in Conn : DoCredential(sessionPromiseThen(k))
    \/ \E k \in Conn : DoCredential(sessionPromiseRejected(k))
    \/ \E k \in Conn : DoCredential(onclose(k))
    \/ \E k \in Conn : DoCredential(onerror(k))
    \/ DoCredential(Tick)

CredentialSpec == Init /\ [][CredentialNext]_vars

\* ScenarioSpec: connect, three captured frames sent, one audio payload, one
\* interruption, one more audio payload, each in its own message; the clock
\* may tick and a buffer may play to its end between the steps.
PayloadMessages ==
    {m \in AudioMessages(PlayBytes) :
        /\ ~m.interrupted
        /\ m.audioData \in 1..PlayBytes
        /\ decodeAudioData(decodeBase64(m.audioData)) # Throw}

InterruptionMessage ==
    [inputTranscription |-> FALSE, outputTranscription |-> FALSE,
     audioData |-> NoAudio, interrupted |-> TRUE]

Advance == scen' = [scen EXCEPT !.stage = @ + 1]

ScenarioNext ==
    \/ scen.stage = 0 /\ toggleLiveConnection /\ Advance
    \/ scen.stage = 1 /\ getUserMediaResolved(1) /\ Advance
    \/ scen.stage = 2 /\ onopen(1) /\ Advance
    \/ scen.stage = 3 /\ sessionPromiseThen(1) /\ Advance
    \/ scen.stage \in {4, 5, 6} /\ audioprocess(1) /\ Advance
    \/ scen.stage \in {7, 10} /\ (\E m \in PayloadMessages : onmessage(1, m)) /\ Advance
    \/ scen.stage = 8 /\ onmessageResumed /\ Advance
    \/ /\ scen.stage = 9
       /\ onmessage(1, InterruptionMessage)
       /\ scen' = [scen EXCEPT !.stage = 10,
                               !.tInterrupt = currentTime(audioContextRef),
                               !.preNext = nextStartTimeRef]
    \/ /\ scen.stage = 11
       /\ onmessageResumed
       /\ scen' = [scen EXCEPT !.stage = 12, !.tSched = currentTime(audioContextRef)]
    \/ scen.stage < 12 /\ Tick /\ now' <= PlayTime /\ UNCHANGED scen
    \/ scen.stage < 12 /\ (\E i \in DOMAIN sources : onended(i)) /\ UNCHANGED scen

ScenarioSpec == InitLocal /\ [][ScenarioNext]_vars

\* TranscriptSpec: one voice session whose messages carry transcriptions only;
\* the conversation log holds up to LogLen entries.
TranscriptMessages ==
    {m \in LiveServerMessage(MaxBytes) :
        /\ m.audioData = NoAudio /\ ~m.interrupted
        /\ m.inputTranscription \/ m.outputTranscription}

TranscriptBounded ==
    /\ nConnect <= 1
    /\ Len(chatHistory) <= LogLen

DoTranscript(A) == A /\ TranscriptBounded' /\ UNCHANGED scen

TranscriptNext ==
    \/ DoTranscript(toggleLiveConnection)
    \/ DoTranscript(resetState)
    \/ \E k \in Conn : DoTranscript(getUserMediaResolved(k))
    \/ \E k \in Conn : DoTranscript(onopen(k))
    \/ \E k \in Conn : DoTranscript(sessionPromiseThen(k))
    \/ \E k \in Conn : DoTranscript(onclose(k))
    \/ \E k \in Conn, message \in TranscriptMessages :
          DoTranscript(onmessage(k, message))

TranscriptSpec == InitLocal /\ [][TranscriptNext]_vars

\* ErrorSpec: the error flag over up to ErrConnects connect() calls, with
\* every way a connect() or a session can end.
ErrorBounded ==
    /\ nConnect <= ErrConnects
    /\ Len(chatHistory) <= MaxLog

DoError(A) == A /\ ErrorBounded' /\ UNCHANGED scen

ErrorNext ==
    \/ DoError(toggleLiveConnection)
    \/ DoError(resetState)
    \/ \E k \in Conn : DoError(getUserMediaResolved(k))
    \/ \E k \in Conn : DoError(getUserMediaRejected(k))
    \/ \E k \in Conn : DoError(onopen(k))
    \/ \E k \in Conn : DoError(sessionPromiseThen(k))
    \/ \E k \in Conn : DoError(sessionPromiseRejected(k))
    \/ \E k \in Conn : DoError(onclose(k))
    \/ \E k \in Conn : DoError(onerror(k))
    \/ \E k \in Conn, message \in TranscriptMessages : DoError(onmessage(k, message))

ErrorSpec == InitLocal /\ [][ErrorNext]_vars

\* ConfigSpec: the language select and the analysis next to the voice session,
\* over up to CfgConnects connect() calls.
ConfigBounded == nConnect <= CfgConnects

DoConfig(A) == A /\ ConfigBounded' /\ UNCHANGED scen

ConfigNext ==
    \/ DoConfig(toggleLiveConnection)
    \/ DoConfig(resetState)
    \/ \E i \in 1..MaxLanguages : DoConfig(selectLanguage(LANGUAGES[i]))
    \/ DoConfig(handleAnalyzeClick)
    \/ \E result \in 1..MaxAnalyses : DoConfig(analyzeMedicalImageResolved(result))
    \/ DoConfig(analyzeMedicalImageRejected)
    \/ \E k \in Conn : DoConfig(getUserMediaResolved(k))
    \/ \E k \in Conn : DoConfig(onopen(k))

ConfigSpec == InitLocal /\ [][ConfigNext]_vars

\* CaptureSpec: the capture pipeline over up to CapConnects connect() calls
\* and CapFrames captured frames.
CaptureBounded ==
    /\ nConnect <= CapConnects
    /\ nCaptured <= CapFrames

DoCapture(A) == A /\ CaptureBounded' /\ UNCHANGED scen

CaptureNext ==
    \/ DoCapture(toggleLiveConnection)
    \/ \E k \in Conn : DoCapture(getUserMediaResolved(k))
    \/ \E k \in Conn : DoCapture(onopen(k))
    \/ \E k \in Conn : DoCapture(sessionPromiseThen(k))
    \/ \E k \in Conn : DoCapture(audioprocess(k))

CaptureSpec == InitLocal /\ [][CaptureNext]_vars

\* CorruptSpec: one voice session that receives an audio payload, then a
\* corrupt one (not base64, or an odd number of bytes), then one more audio
\* payload; the clock may tick and a buffer may play to its end in between.
CorruptMessages ==
    {m \in AudioMessages(CorruptBytes) :
        m.audioData = BadBase64 \/ (m.audioData > 0 /\ m.audioData % 2 = 1)}

ValidMessages ==
    {m \in AudioMessages(CorruptBytes) :
        ~m.interrupted /\ m.audioData > 0 /\ m.audioData % 2 = 0}

CorruptNext ==
    \/ scen.stage = 0 /\ toggleLiveConnection /\ Advance
    \/ scen.stage = 1 /\ getUserMediaResolved(1) /\ Advance
    \/ scen.stage = 2 /\ onopen(1) /\ Advance
    \/ scen.stage = 3 /\ sessionPromiseThen(1) /\ Advance
    \/ scen.stage \in {4, 8} /\ (\E m \in ValidMessages : onmessage(1, m)) /\ Advance
    \/ scen.stage = 5 /\ onmessageResumed /\ Advance
    \/ /\ scen.stage = 6
       /\ \E m \in CorruptMessages : onmessage(1, m)
       /\ scen' = [scen EXCEPT !.stage = IF microtask' = <<>> THEN 8 ELSE 7,
                               !.preNext = nextStartTimeRef]
    \/ scen.stage = 7 /\ onmessageResumed /\ Advance
    \/ /\ scen.stage = 9
       /\ onmessageResumed
       /\ scen' = [scen EXCEPT !.stage = 10, !.tSched = currentTime(audioContextRef)]
    \/ scen.stage < 10 /\ Tick /\ now' <= CorruptTime /\ UNCHANGED scen
    \/ scen.stage < 10 /\ (\E i \in DOMAIN sources : onended(i)) /\ UNCHANGED scen

CorruptSpec == InitLocal /\ [][CorruptNext]_vars

\* TeardownSpec: one voice session with playback, torn down by the user's
\* toggle; a release call of disconnect() may fail.
TeardownBounded ==
    /\ nConnect <= 1
    /\ Len(sources) + Len(microtask) <= TeardownSources

DoTeardown(A) == A /\ TeardownBounded' /\ UNCHANGED scen

TeardownNext ==
    \/ DoTeardown(toggleLiveConnection)
    \/ \E at \in {"inputSource", "processor", "stop", "close"} :
          DoTeardown(isConnected /\ disconnectRaised(at))
    \/ \E k \in Conn : DoTeardown(getUserMediaResolved(k))
    \/ \E k \in Conn : DoTeardown(onopen(k))
    \/ \E k \in Conn : DoTeardown(sessionPromiseThen(k))
    \/ \E k \in Conn, message \in ValidMessages : DoTeardown(onmessage(k, message))
    \/ DoTeardown(onmessageResumed)

TeardownSpec == InitLocal /\ [][TeardownNext]_vars

\* ChatSpec: the conversation log with its writers: the text chat, the voice
\* session's transcripts and the handlers that clear it.  The microphone
\* button is rendered with the chat panel, once there is an analysis and a
\* chat.
ChatBounded ==
    /\ nConnect <= ChatConnects
    /\ Len(chatHistory) <= ChatLen
    /\ chatRequests <= MaxRequests

DoChat(A) == A /\ ChatBounded' /\ UNCHANGED scen

ChatNext ==
    \/ DoChat(analysis # NULL /\ chat # NULL /\ toggleLiveConnection)
    \/ DoChat(resetState)
    \/ DoChat(handleAnalyzeClick)
    \/ \E result \in 1..MaxAnalyses : DoChat(analyzeMedicalImageResolved(result))
    \/ DoChat(analyzeMedicalImageRejected)
    \/ DoChat(handleSendChatMessage)
    \/ DoChat(sendMessageResolved)
    \/ DoChat(sendMessageRejected)
    \/ \E k \in Conn : DoChat(getUserMediaResolved(k))
    \/ \E k \in Conn : DoChat(onopen(k))
    \/ \E k \in Conn : DoChat(sessionPromiseThen(k))
    \/ \E k \in Conn : DoChat(onclose(k))
    \/ \E k \in Conn, message \in TranscriptMessages : DoChat(onmessage(k, message))

ChatSpec == InitLocal /\ [][ChatNext]_vars

\* EncodeSpec: float32ToBase64 on capture buffers of up to MaxSamples samples
Samples == ((0 - 2 * SampleUnit)..(2 * SampleUnit)) \cup {NaN}

Float32Arrays ==
    UNION {[1..n -> Samples] : n \in 0..MaxSamples}

EncodeNext == \E data \in Float32Arrays : encodeFrame(data) /\ UNCHANGED scen

EncodeSpec == InitLocal /\ [][EncodeNext]_vars

\* AttemptSpec: connect() attempts and how they end.  The browser settles
\* every getUserMedia request and the network settles every connection
\* attempt: a call waiting for the microphone is resumed, a session that is
\* connecting opens, fails with onerror or has its promise rejected, and the
\* then callback of a resolved promise runs.  What the user does is not
\* forced.
AttemptBounded == nConnect <= AttemptConnects

DoAttempt(A) == A /\ AttemptBounded' /\ UNCHANGED scen

getUserMediaSettled ==
    \E k \in Conn : DoAttempt(getUserMediaResolved(k)) \/ DoAttempt(getUserMediaRejected(k))

connectionSettled ==
    \E k \in Conn :
        \/ DoAttempt(onopen(k))
        \/ session[k] = "connecting" /\ DoAttempt(onerror(k))
        \/ session[k] = "connecting" /\ DoAttempt(sessionPromiseRejected(k))

AttemptNext ==
    \/ DoAttempt(toggleLiveConnection)
    \/ DoAttempt(resetState)
    \/ getUserMediaSettled
    \/ connectionSettled
    \/ \E k \in Conn : DoAttempt(sessionPromiseThen(k))
    \/ \E k \in Conn : DoAttempt(sessionPromiseRejected(k))
    \/ \E k \in Conn : DoAttempt(onclose(k))
    \/ \E k \in Conn : DoAttempt(onerror(k))

AttemptSpec ==
    /\ InitLocal
    /\ [][AttemptNext]_vars
    /\ WF_vars(getUserMediaSettled)
    /\ WF_vars(connectionSettled)
    /\ WF_vars(\E k \in Conn : DoAttempt(sessionPromiseThen(k)))

\* ------------------------------------------------------------------ claims

\* the steps in which onmessage handles an interruption signal
InterruptionStep ==
    \/ \E k \in Conn, m \in LiveServerMessage(PlayBytes) :
          m.interrupted /\ onmessage(k, m)
    \/ microtask # <<>> /\ Head(microtask).interrupted /\ onmessageResumed

\* C1: the buffers scheduled since the last interruption or disconnect are
\* scheduled in arrival order, and each starts no earlier than the buffer
\* before it starts plus that buffer's duration: no overlap, no reordering.
C1_NoOverlap ==
    \A i \in (resetAt + 1)..(Len(sources) - 1) :
        sources[i + 1].start >= sources[i].start + sources[i].duration

\* three buffers in a row, one chained to the end of the buffer before it and
\* one started at a clock that had run past that end
C1_Witness ==
    /\ Len(sources) >= resetAt + 3
    /\ \E i \in (resetAt + 1)..(Len(sources) - 1) :
          /\ sources[i + 1].start = sources[i].start + sources[i].duration
          /\ sources[i + 1].start > currentTime(sources[i + 1].ctx)
    /\ \E i \in (resetAt + 1)..(Len(sources) - 1) :
          sources[i + 1].start > sources[i].start + sources[i].duration

\* C2 as stated: nextStartTimeRef never decreases, except in a step that
\* handles an interruption signal, which sets it to zero.
C2_Original ==
    [][nextStartTimeRef' < nextStartTimeRef
          => InterruptionStep /\ nextStartTimeRef' = 0]_vars

\* C2 as amended: nextStartTimeRef never decreases, except in a step that
\* handles an interruption signal or runs disconnect(), which sets it to zero.
C2_MonotoneOffset ==
    [][nextStartTimeRef' < nextStartTimeRef
          => (InterruptionStep \/ disconnect) /\ nextStartTimeRef' = 0]_vars

\* disconnect() has stopped the buffers of an offset that had advanced
C2_Witness ==
    /\ lastOp = "disconnect"
    /\ nextStartTimeRef = 0
    /\ resetAt = Len(sources)
    /\ \E i \in DOMAIN sources :
          sources[i].state = "stopped" /\ sources[i].start + sources[i].duration > 0

\* C3: right after onmessage has handled a message whose interrupted flag is
\* set, the active set is empty, every source that was in it is stopped and
\* nextStartTimeRef is 0; the next audio payload is then scheduled at the
\* output clock's current time.
C3_Interrupted == lastOp \in {"interrupted", "interrupted.throw"}

C3_InterruptionClears ==
    /\ [](C3_Interrupted =>
            /\ scheduledSourcesRef = {}
            /\ nextStartTimeRef = 0
            /\ \A i \in DOMAIN sources : sources[i].state # "scheduled")
    /\ [][(C3_Interrupted /\ onmessageResumed /\ Len(sources') > Len(sources))
            => sources'[Len(sources')].start = currentTime(audioContextRef)]_vars

\* C4: after connect, 3 frames sent, an audio payload, an interruption and one
\* more audio payload, the active set holds exactly one buffer, the one of the
\* last payload, and it starts at the clock time at which it was scheduled,
\* which is not before the clock time of the interruption.
C4_Scenario ==
    scen.stage = 12 =>
        /\ Len(sent) = 3
        /\ scheduledSourcesRef = {Len(sources)}
        /\ Len(sources) = 2
        /\ sources[2].start = scen.tSched
        /\ scen.tSched >= scen.tInterrupt

\* the scenario has run, and the offset before the interruption lay beyond the
\* clock time at which the last payload was scheduled
C4_Witness ==
    /\ scen.stage = 12
    /\ scen.preNext > scen.tSched
    /\ scen.tInterrupt > 0

\* C5: a disconnect() that follows a disconnect() changes nothing of the hook:
\* session ref, input source ref, processor ref, audio context ref, active
\* set, nextStartTimeRef, isConnected and isError stay as they are.
C5_DisconnectIdempotent ==
    [][(lastOp = "disconnect" /\ disconnect) => UNCHANGED hookVars]_vars

\* disconnect() has run on a hook that held a session, a capture graph, an
\* output context and a scheduled buffer
C5_Witness ==
    /\ lastOp = "disconnect"
    /\ \E k \in Conn :
          /\ audioContext[k] = "closed"
          /\ stream[k] = "live" /\ ~sourceConnected[k] /\ ~processorConnected[k]
          /\ onaudioprocess[k]
    /\ \E i \in DOMAIN sources : sources[i].state = "stopped"
    /\ hookVars = <<FALSE, isError, NULL, NULL, NULL, 0, {}, NULL>>

\* C6: after disconnect() and until connect() is next invoked the controller
\* is Idle: no callback sets isConnected back to true.
C6_IdleAfterDisconnect == tornDown => ~isConnected

\* C7: after disconnect() (and before any later connect()) the continuations
\* of a suspended connect() have mutated nothing: sessionRef, inputSourceRef
\* and processorRef are null and no attached handler sends frames.
C7_NoMutationAfterDisconnect ==
    tornDown =>
        /\ sessionRef = NULL
        /\ inputSourceRef = NULL
        /\ processorRef = NULL
        /\ \A k \in Conn :
              ~(onaudioprocess[k] /\ sourceConnected[k] /\ processorConnected[k])

\* C8: after disconnect() (and before any later connect()) the microphone
\* stream is released and no frame is passed to sendRealtimeInput.
C8_NoSendAfterDisconnect ==
    /\ [](tornDown => \A k \in Conn : stream[k] # "live")
    /\ [][tornDown => sent' = sent]_vars

\* C9: at most one live remote session, one open capture pipeline and one
\* open output audio context at a time.
C9_SingleResources ==
    /\ Cardinality({k \in Conn : session[k] \in {"connecting", "open"}}) <= 1
    /\ Cardinality({k \in Conn : stream[k] = "live"}) <= 1
    /\ Cardinality({k \in Conn : audioContext[k] = "running"}) <= 1

\* C10: without a configured credential every connect() ends in its catch
\* block with the error flag raised and the controller Idle, and the
\* controller is never Open.
C10_NoCredential ==
    (viteKey = "" /\ procKey = "") =>
        /\ ~isConnected
        /\ nConnect > 0 => isError
        /\ \A k \in Conn : pc[k] \in {"none", "done"} /\ session[k] = "none"

\* connect() was invoked without a credential
C10_Witness ==
    /\ viteKey = "" /\ procKey = ""
    /\ nConnect > 0
    /\ pc[nConnect] = "done"
    /\ isError /\ ~isConnected

\* C11: every failing connect() raises the error flag and leaves the
\* controller Idle, whether it fails for a missing credential, because
\* getUserMedia rejects, or because the connection promise rejects.
C11_FailingConnectRaisesError ==
    [][(\/ connect /\ ApiKeyAbsent(getApiKey)
        \/ \E k \in Conn : getUserMediaRejected(k)
        \/ \E k \in Conn : sessionPromiseRejected(k))
          => isError' /\ ~isConnected']_vars

\* the entries the fragments of one message stand for
Entries(message) ==
    (IF message.inputTranscription
       THEN <<[role |-> "user", content |-> "text"]>> ELSE <<>>)
    \o (IF message.outputTranscription
          THEN <<[role |-> "model", content |-> "text"]>> ELSE <<>>)

\* C12: every inbound transcript fragment is appended to the conversation log
\* as one entry of its own, in arrival order, tagged user for an input
\* transcription and model for an output transcription; a fragment identical
\* to the entry before it is appended all the same.
C12_TranscriptEntries ==
    [][\A k \in Conn, m \in TranscriptMessages :
          onmessage(k, m) => chatHistory' = chatHistory \o Entries(m)]_vars

\* fragments user, model, user have arrived: three entries, in that order
C12_Witness ==
    /\ Len(chatHistory) = 3
    /\ chatHistory[1].role = "user"
    /\ chatHistory[2].role = "model"
    /\ chatHistory[3].role = "user"
    /\ chatHistory[1] = chatHistory[3]

\* C13: a message delivered by a session that disconnect() has torn down (the
\* session had been stored in sessionRef and disconnect() has cleared it) is a
\* no-op: it appends no transcript entry, schedules no audio and changes
\* neither nextStartTimeRef nor the active set.
C13_StaleCallbacksNoOps ==
    [][\A k \in Conn, m \in LiveServerMessage(PlayBytes) :
          (/\ pc[k] = "done" /\ session[k] = "open" /\ sessionRef = NULL
           /\ onmessage(k, m))
             => UNCHANGED <<chatHistory, sources, microtask, nextStartTimeRef,
                            scheduledSourcesRef>>]_vars

\* C14: once onmessage has run on a message that carries the interruption
\* signal, no audio payload that arrived before the signal is still playing
\* or scheduled, whether or not its decode was awaited when the signal came.
C14_NoStaleAudio ==
    lastOp \in {"interrupted", "interrupted.throw"} =>
        \A i \in DOMAIN sources :
            ~(sources[i].state = "scheduled" /\ audioContext[sources[i].ctx] = "running")

\* C15: the error flag is cleared only by the start of a connect() call;
\* disconnect(), onopen, onclose, onmessage and every other step leave a
\* raised flag raised.
C15_ErrorClearedOnlyByConnect ==
    [][(isError /\ ~isError') => connect]_vars

\* the flag was raised by an earlier attempt and survived a disconnect() and
\* the opening of a later session
C15_Witness ==
    /\ isError
    /\ isConnected
    /\ nConnect = 2
    /\ audioContext[1] = "closed"

\* C16: while the controller is Open, a close notification makes it Idle and
\* leaves the error flag as it is, and a transport error makes it Idle and
\* raises the error flag.
C16_CloseAndError ==
    [][\A k \in Conn :
          /\ (isConnected /\ onclose(k)) => (~isConnected' /\ isError' = isError)
          /\ (isConnected /\ onerror(k)) => (~isConnected' /\ isError')]_vars

\* the only session was opened and stored, then ended by a transport error
C16_Witness ==
    /\ nConnect = 1
    /\ session[1] = "closed"
    /\ sessionRef = 1
    /\ isError
    /\ ~isConnected

\* C17: the configuration of a session is made of the language and the
\* analysis selected when its connect() was called, and no later step, a
\* change of language or analysis included, alters it; a later connect()
\* takes the values selected when it is called.
C17_ConfigFixedAtConnect ==
    /\ [](\A k \in Conn : config[k] # NoConfig =>
            config[k] = [language |-> closure[k].language,
                         analysis |-> closure[k].analysis])
    /\ [][\A k \in Conn :
            /\ config[k] # NoConfig => config'[k] = config[k]
            /\ closure[k] # NoConfig => closure'[k] = closure[k]
            /\ (nConnect # k /\ nConnect' = k) =>
                  closure'[k] = [language |-> selectedLanguage, analysis |-> analysis]]_vars

\* language and analysis were chosen before connect() and changed after the
\* session was configured; the session, still open, kept its configuration
C17_Witness ==
    /\ session[1] = "open"
    /\ config[1].language = LANGUAGES[2]
    /\ config[1].analysis # NULL
    /\ selectedLanguage = LANGUAGES[1]
    /\ analysis = NULL

\* C18: every connect() attempt is a user's toggle made while the controller
\* is not connected; no failed connect, transport error, close notification or
\* other step starts one.
C18_NoAutomaticRetry ==
    [][nConnect' # nConnect => (~isConnected /\ toggleLiveConnection)]_vars

\* a first attempt failed and a first session ended with a transport error
\* or a close; the second attempt was the user's
C18_Witness ==
    /\ nConnect = 2
    /\ pc[1] = "done"
    /\ session[1] \in {"none", "closed"}
    /\ isError
    /\ pc[2] = "done"
    /\ session[2] = "closed"

\* C19: a frame captured by a pipeline whose processor has the sending handler
\* attached is passed to that handler's session exactly once, and the frames
\* sent are in capture order.
C19_FramesSentOnceInOrder ==
    /\ [](\A i, j \in DOMAIN sent : i < j => sent[i].frame < sent[j].frame)
    /\ [][\A k \in Conn :
            (onaudioprocess[k] /\ audioprocess(k)) =>
                sent' = Append(sent, [session |-> k, frame |-> nCaptured'])]_vars

\* three frames were captured while the session was wired, and sent
C19_Witness ==
    /\ Len(sent) = 3
    /\ nCaptured = 3
    /\ \A i \in 1..3 : sent[i] = [session |-> sessionRef, frame |-> i]

\* C20: when disconnect() has returned, every source that was in the active
\* set is stopped, the set is empty, nextStartTimeRef is 0 and audioContextRef
\* is null; the output context that audioContextRef held is closed.
C20_DisconnectReleasesPlayback ==
    /\ [](lastOp = "disconnect" =>
            /\ scheduledSourcesRef = {}
            /\ nextStartTimeRef = 0
            /\ audioContextRef = NULL
            /\ \A i \in DOMAIN sources : sources[i].state # "scheduled")
    /\ [][(disconnect /\ audioContextRef # NULL) =>
            /\ audioContext'[audioContextRef] = "closed"
            /\ \A i \in scheduledSourcesRef : sources'[i].state = "stopped"]_vars

\* disconnect() ran with three buffers scheduled back to back
C20_Witness ==
    /\ lastOp = "disconnect"
    /\ Len(sources) = 3
    /\ \A i \in 1..3 : sources[i].state = "stopped"
    /\ \A i \in 1..2 : sources[i + 1].start = sources[i].start + sources[i].duration
    /\ audioContext[1] = "closed"

\* the steps in which onmessage meets a corrupt payload: atob raises, or the
\* awaited decodeAudioData rejects
CorruptStep ==
    \/ \E k \in Conn, m \in CorruptMessages :
          audioContextRef # NULL /\ m.audioData = BadBase64 /\ onmessage(k, m)
    \/ /\ microtask # <<>> /\ Head(microtask).bytes % 2 = 1
       /\ onmessageResumed

\* C21: a corrupt audio payload is dropped: the step that meets it changes
\* neither nextStartTimeRef nor the active set and schedules nothing, and the
\* valid payload after it is scheduled as if the corrupt one had not arrived,
\* at the later of the clock and the offset left by the payload before it.
C21_CorruptPayloadDropped ==
    /\ [][CorruptStep =>
            UNCHANGED <<nextStartTimeRef, scheduledSourcesRef, sources>>]_vars
    /\ [](scen.stage \in {7, 8, 9} => Len(sources) = 1 /\ nextStartTimeRef = scen.preNext)
    /\ [](scen.stage = 10 =>
            /\ Len(sources) = 2
            /\ sources[2].state = "scheduled"
            /\ 2 \in scheduledSourcesRef
            /\ sources[2].start = Max(scen.tSched, scen.preNext)
            /\ nextStartTimeRef = sources[2].start + sources[2].duration)

\* a corrupt payload was dropped between two valid payloads, and
\* the second was chained to the end of the first
C21_Witness ==
    /\ scen.stage = 10
    /\ scen.preNext > scen.tSched
    /\ sources[2].start = sources[1].start + sources[1].duration
    /\ sources[1].state = "scheduled"

\* C22: when a release call of disconnect() has failed, whichever it was, the
\* other resources are released all the same (the input source node and the
\* processor node disconnected and their refs null, the active set stopped
\* and empty, the output context closed and its ref null) and isConnected is
\* false.
C22_TeardownIndependent ==
    [][\A at \in {"inputSource", "processor", "stop", "close"} :
          disconnectRaised(at) =>
            /\ at # "inputSource" =>
                  /\ inputSourceRef' = NULL
                  /\ inputSourceRef # NULL => ~sourceConnected'[inputSourceRef]
            /\ at # "processor" =>
                  /\ processorRef' = NULL
                  /\ processorRef # NULL => ~processorConnected'[processorRef]
            /\ at # "stop" =>
                  \A i \in scheduledSourcesRef : sources'[i].state = "stopped"
            /\ scheduledSourcesRef' = {}
            /\ at # "close" =>
                  /\ audioContextRef' = NULL
                  /\ audioContextRef # NULL =>
                        audioContext'[audioContextRef] = "closed"
            /\ ~isConnected']_vars

\* an entry written by handleLiveTranscript
VoiceEntry(entry) == entry.content = "text"

\* C23: every step leaves the conversation log as it is, appends to its end,
\* or, in resetState (a new image) and handleAnalyzeClick (a new analysis),
\* empties it; and from such a clear until the next analysis is there, the
\* log holds no transcript of the voice chat of the analysis before.
C23_LogAppendOnly ==
    /\ [][\/ /\ Len(chatHistory') >= Len(chatHistory)
             /\ SubSeq(chatHistory', 1, Len(chatHistory)) = chatHistory
          \/ /\ chatHistory' = <<>>
             /\ resetState \/ handleAnalyzeClick]_vars
    /\ [](analysis = NULL =>
            \A i \in DOMAIN chatHistory : ~VoiceEntry(chatHistory[i]))

\* C24: the conversation log has one writer at a time: while the controller
\* is Open neither a typed message nor the text chat's reply is appended, and
\* while a chat.sendMessage call is in flight no transcript is appended.
C24_SingleWriter ==
    [][/\ isConnected => ~(handleSendChatMessage \/ sendMessageResolved)
       /\ chatRequests > 0 =>
             \A k \in Conn, m \in TranscriptMessages : ~onmessage(k, m)]_vars

\* C25: the 16-bit samples that the text made by float32ToBase64 stands for
\* are as many as the input samples; each lies in [-32768, 32767]; a sample
\* of -1 or less gives -32768, of 1 or more 32767, 0 gives 0, a negative
\* sample in between its value times 32768 and a positive one its value times
\* 32767, the fraction dropped.
C25_Encoding ==
    LET int16 == Int16Array(atob(base64PCM))
    IN  /\ Len(int16) = Len(inputData)
        /\ \A i \in DOMAIN inputData :
              LET s == inputData[i]
              IN  /\ int16[i] \in (0 - 32768)..32767
                  /\ s # NaN =>
                       /\ s <= 0 - SampleUnit => int16[i] = 0 - 32768
                       /\ s >= SampleUnit => int16[i] = 32767
                       /\ s = 0 => int16[i] = 0
                       /\ (s > 0 - SampleUnit /\ s < 0) =>
                             int16[i] = 0 - (((0 - s) * 32768) \div SampleUnit)
                       /\ (s > 0 /\ s < SampleUnit) =>
                             int16[i] = (s * 32767) \div SampleUnit

\* a buffer with a sample above 1 and a sample below -1 was encoded
C25_Witness ==
    /\ Len(inputData) = 2
    /\ inputData[1] > SampleUnit
    /\ inputData[2] # NaN /\ inputData[2] < 0 - SampleUnit
    /\ Len(base64PCM) = 8

\* C26: in every state the active set holds exactly the sources that were
\* scheduled and have neither played to their end nor been stopped by an
\* interruption or by disconnect(); scheduling a source adds it, and it alone,
\* to the set, and its natural completion removes it, and it alone.
C26_ActiveSetExact ==
    /\ [](scheduledSourcesRef =
            {i \in DOMAIN sources : sources[i].state = "scheduled"})
    /\ [][/\ Len(sources') > Len(sources) =>
               /\ Len(sources') = Len(sources) + 1
               /\ Len(sources') \notin scheduledSourcesRef
               /\ \/ scheduledSourcesRef' = scheduledSourcesRef \cup {Len(sources')}
                  \/ InterruptionStep /\ scheduledSourcesRef' = {}
          /\ \A i \in DOMAIN sources :
               onended(i) => scheduledSourcesRef' = scheduledSourcesRef \ {i}]_vars

\* of three buffers one has played to its end, one was stopped by an
\* interruption and one is scheduled
C26_Witness ==
    /\ Len(sources) = 3
    /\ \E i, j \in DOMAIN sources :
          sources[i].state = "ended" /\ sources[j].state = "stopped"
    /\ Cardinality(scheduledSourcesRef) = 1
    /\ audioContextRef # NULL

\* C27: the processor of a connect() call gets its sending handler only when
\* that call's connection promise has resolved; a frame it captures before
\* that is not sent, then or later, and every frame sent went to a session
\* whose promise had resolved.
C27_WiredAfterConnection ==
    /\ [](\A k \in Conn : onaudioprocess[k] => pc[k] = "done")
    /\ [](\A i \in DOMAIN sent : pc[sent[i].session] = "done")
    /\ [][\A k \in Conn :
            /\ (pc[k] # "done" /\ audioprocess(k)) => sent' = sent
            /\ sessionPromiseThen(k) => sent' = sent]_vars

\* two frames were captured and dropped before the promise resolved, the
\* third was sent
C27_Witness ==
    /\ nConnect = 1
    /\ nCaptured = 3
    /\ sent = <<[session |-> 1, frame |-> 3]>>

\* C28: whenever onmessage has run to its end on a message whose interrupted
\* flag is set, the active set is empty and nextStartTimeRef is 0, also when
\* the audio payload of that message fails to decode.
C28_InterruptionHonoured ==
    [][(\/ \E k \in Conn, m \in LiveServerMessage(CorruptBytes) :
              m.interrupted /\ onmessage(k, m) /\ microtask' = <<>>
        \/ microtask # <<>> /\ Head(microtask).interrupted /\ onmessageResumed)
          => scheduledSourcesRef' = {} /\ nextStartTimeRef' = 0]_vars

\* C29: when onclose or onerror has run for a session, the capture pipeline
\* of that session is released (stream stopped, nodes disconnected, output
\* context closed) and sends no more frames to it, and the connect() after it
\* starts with every ref null.
C29_ReleasedAfterClose ==
    /\ [][\A k \in Conn :
            (onclose(k) \/ onerror(k)) =>
                /\ stream'[k] # "live"
                /\ ~sourceConnected'[k] /\ ~processorConnected'[k]
                /\ audioContext'[k] # "running"]_vars
    /\ [][\A k \in Conn :
            (session[k] = "closed" /\ audioprocess(k)) => sent' = sent]_vars
    /\ [][(connect /\ \E k \in Conn : session[k] = "closed") =>
            /\ audioContextRef = NULL /\ inputSourceRef = NULL
            /\ processorRef = NULL /\ sessionRef = NULL]_vars

\* C30: when a connect() attempt has failed in its catch block, for a missing
\* credential or a rejected getUserMedia, audioContextRef, inputSourceRef,
\* processorRef and sessionRef are null and no output context is running.
C30_NothingHeldAfterFailure ==
    [][(\/ connect /\ ApiKeyAbsent(getApiKey)
        \/ \E k \in Conn : getUserMediaRejected(k))
          => /\ audioContextRef' = NULL /\ inputSourceRef' = NULL
             /\ processorRef' = NULL /\ sessionRef' = NULL
             /\ \A k \in Conn : audioContext'[k] # "running"]_vars

\* C31: whenever isConnected is true, the language in the system instruction
\* of the open session is the language selected now, also when the language
\* was changed while the connect() of that session was in progress.
C31_LanguageOfOpenSession ==
    isConnected =>
        \A k \in Conn : session[k] = "open" => config[k].language = selectedLanguage

\* C32: every connect() call that has got past the credential check leads to
\* the controller being Open or to the error flag being raised.
C32_ConnectSettles ==
    \A k \in Conn : (pc[k] = "mic") ~> (isConnected \/ isError)

\* C33: whenever audioContextRef is null the active set is empty and
\* nextStartTimeRef is 0; and the start time given to a buffer is never
\* before the current time of the output clock when it is scheduled.
C33_IdlePlaybackAndStartTime ==
    /\ [](audioContextRef = NULL =>
            scheduledSourcesRef = {} /\ nextStartTimeRef = 0)
    /\ [][(onmessageResumed /\ Len(sources') > Len(sources)) =>
            sources'[Len(sources')].start >= currentTime(audioContextRef)]_vars

\* disconnect() has cleared the context of a session in which a buffer was
\* scheduled at the clock's time, before the end of the buffer before it,
\* after an interruption had reset the offset
C33_Witness ==
    /\ audioContextRef = NULL
    /\ nConnect = 1
    /\ audioContext[1] = "closed"
    /\ Len(sources) = 3
    /\ \E i \in 2..3 :
          sources[i].start < sources[i - 1].start + sources[i - 1].duration
    /\ \E i \in 1..3 : sources[i].start > 0

====
